---- MODULE Spec2Model ----
(***************************************************************************)
(* Model of Dinwiddie_deduper.py: removal of PCR duplicates from a SAM     *)
(* file.  A Python str is a sequence of one-character strings, so that     *)
(* split, int, indexing and the lexical order of str are computed the way  *)
(* the interpreter computes them.  Python index i is TLA+ index i+1.       *)
(***************************************************************************)
EXTENDS Integers, Sequences, FiniteSets, TLC

\* Longest input stream (number of lines of the SAM file) explored.
MaxLines == 3

\* Longest CIGAR string explored by the start_pos specification.
MaxCigarLen == 3

----------------------------------------------------------------------------
(* Python primitives *)

TAB == "\t"
NL == "\n"

\* ord(c) for the characters that occur in the modelled files.
Ord(c) ==
    CASE c = "\t" -> 9   [] c = "\n" -> 10  [] c = " " -> 32   [] c = "*" -> 42
      [] c = "-" -> 45   [] c = "0" -> 48   [] c = "1" -> 49   [] c = "2" -> 50
      [] c = "3" -> 51   [] c = "4" -> 52   [] c = "5" -> 53   [] c = "6" -> 54
      [] c = "7" -> 55   [] c = "8" -> 56   [] c = "9" -> 57   [] c = ":" -> 58
      [] c = "=" -> 61   [] c = "@" -> 64   [] c = "A" -> 65   [] c = "C" -> 67
      [] c = "D" -> 68   [] c = "G" -> 71   [] c = "H" -> 72   [] c = "I" -> 73
      [] c = "M" -> 77   [] c = "N" -> 78   [] c = "S" -> 83   [] c = "T" -> 84
      [] c = "V" -> 86   [] c = "Z" -> 90   [] c = "^" -> 94   [] c = "a" -> 97
      [] c = "b" -> 98   [] c = "c" -> 99   [] c = "d" -> 100  [] c = "e" -> 101
      [] c = "f" -> 102  [] c = "g" -> 103  [] c = "h" -> 104  [] c = "i" -> 105
      [] c = "j" -> 106  [] c = "k" -> 107  [] c = "x" -> 120

IsDigit(c) == c \in {"0", "1", "2", "3", "4", "5", "6", "7", "8", "9"}

IsSpace(c) == c \in {" ", "\t", "\n"}

\* a < b on str: the first differing character decides, a proper prefix is less.
str_lt(a, b) ==
    \E i \in 1..(Len(b)) :
        /\ i <= Len(a) + 1
        /\ \A j \in 1..(i - 1) : a[j] = b[j]
        /\ \/ i = Len(a) + 1
           \/ i <= Len(a) /\ Ord(a[i]) < Ord(b[i])

\* a < b on the tuples (line, qual_score) held by the dict.
tuple_lt(a, b) ==
    \/ str_lt(a[1], b[1])
    \/ a[1] = b[1] /\ str_lt(a[2], b[2])

\* The fields of s from position start on, the scan being at position i.
RECURSIVE split_scan(_, _, _, _)
split_scan(s, sep, start, i) ==
    IF i > Len(s) THEN <<SubSeq(s, start, Len(s))>>
    ELSE IF s[i] = sep
    THEN <<SubSeq(s, start, i - 1)>> \o split_scan(s, sep, i + 1, i + 1)
    ELSE split_scan(s, sep, start, i + 1)

\* s.split(sep) for a one-character separator: always at least one field.
split(s, sep) == split_scan(s, sep, 1, 1)

\* The whitespace-separated fields of s from position i on; start is the
\* position where the field being scanned began, 0 between fields.
RECURSIVE split_ws_scan(_, _, _)
split_ws_scan(s, start, i) ==
    IF i > Len(s)
    THEN IF start = 0 THEN <<>> ELSE <<SubSeq(s, start, Len(s))>>
    ELSE IF IsSpace(s[i])
    THEN IF start = 0 THEN split_ws_scan(s, 0, i + 1)
         ELSE <<SubSeq(s, start, i - 1)>> \o split_ws_scan(s, 0, i + 1)
    ELSE split_ws_scan(s, IF start = 0 THEN i ELSE start, i + 1)

\* s.split(): fields separated by runs of whitespace, no empty field.
split_ws(s) == split_ws_scan(s, 0, 1)

\* s.strip()
RECURSIVE strip(_)
strip(s) ==
    IF s = <<>> THEN s
    ELSE IF IsSpace(s[1]) THEN strip(Tail(s))
    ELSE IF IsSpace(s[Len(s)]) THEN strip(SubSeq(s, 1, Len(s) - 1))
    ELSE s

DigitVal(c) == Ord(c) - 48

RECURSIVE digits_value(_)
digits_value(s) ==
    IF s = <<>> THEN 0
    ELSE 10 * digits_value(SubSeq(s, 1, Len(s) - 1)) + DigitVal(s[Len(s)])

\* The outcome of an expression: a value, or the exception it raises.
Ok(v) == [err |-> "none", val |-> v]
Raise(e) == [err |-> e, val |-> 0]

\* int(s): surrounding whitespace is dropped, an optional sign, then digits only.
int(s) ==
    LET t == strip(s)
        neg == t # <<>> /\ t[1] = "-"
        d == IF t # <<>> /\ t[1] \in {"-", "+"} THEN Tail(t) ELSE t
    IN  IF d # <<>> /\ \A i \in 1..Len(d) : IsDigit(d[i])
        THEN Ok(IF neg THEN 0 - digits_value(d) ELSE digits_value(d))
        ELSE Raise("ValueError")

\* flag & bit, for bit a power of two (two's complement on negative flags).
bit_and(flag, bit) == ((flag \div bit) % 2) * bit

----------------------------------------------------------------------------
(* The known UMIs read from STL96.txt when -u is set (two stand in for 96). *)

STL96 == << <<"A", "C">>, <<"G", "T">> >>

load_umi_list(a) == IF a.umi THEN STL96 ELSE <<>>

in_list(x, l) == \E i \in 1..Len(l) : l[i] = x

----------------------------------------------------------------------------
(* class sam_info *)

\* soft_check(align): the soft clip amount read from the first characters.
soft_check(align) ==
    IF Len(align) < 2 THEN Raise("IndexError")
    ELSE IF align[2] = "S" THEN int(<<align[1]>>)
    ELSE IF Len(align) < 3 THEN Raise("IndexError")
    ELSE IF align[3] = "S" THEN int(SubSeq(align, 1, 2))
    ELSE Ok(0)

\* start_pos(): leftmost mapping position, less the soft clip amount.
start_pos(line) ==
    LET f == split(line, TAB)
    IN  IF Len(f) < 4 THEN Raise("IndexError")
        ELSE LET p == int(f[4])
             IN  IF p.err # "none" THEN p
                 ELSE IF Len(f) < 6 THEN Raise("IndexError")
                 ELSE LET soft == soft_check(f[6])
                      IN  IF soft.err # "none" THEN soft
                          ELSE Ok(IF soft.val > 0 THEN p.val - soft.val
                                                  ELSE p.val)

\* bit_check with the secondary-alignment bit left out of the test.
bit_check_unmapped_only(line) ==
    LET f == split(line, TAB)
    IN  IF Len(f) < 2 THEN Raise("IndexError")
        ELSE LET flag == int(f[2])
             IN  IF flag.err # "none" THEN flag
                 ELSE IF bit_and(flag.val, 4) # 4
                 THEN Ok(<<IF bit_and(flag.val, 16) = 16 THEN "-" ELSE "+", "">>)
                 ELSE Raise("NameError")

\* bit_check(): (strand, umap).  On the unmapped or secondary branch the
\* arguments of the log message are evaluated first and name COUNT, which
\* is bound nowhere in the program: the call raises NameError.
bit_check(line) ==
    LET f == split(line, TAB)
    IN  IF Len(f) < 2 THEN Raise("IndexError")
        ELSE LET flag == int(f[2])
             IN  IF flag.err # "none" THEN flag
                 ELSE IF bit_and(flag.val, 4) # 4 /\ bit_and(flag.val, 256) # 256
                 THEN Ok(<<IF bit_and(flag.val, 16) = 16 THEN "-" ELSE "+", "">>)
                 ELSE Raise("NameError")

\* The last ':'-separated piece of the read name.
read_name_tag(line) ==
    LET name == split_ws(line)[1]
        parts == split(name, ":")
    IN  parts[Len(parts)]

\* barcode_get(): the tag, or "" (and an error in the log) when -u is set
\* and the tag is not a known UMI.
barcode_get(line, a, umi_list, nr) ==
    IF split_ws(line) = <<>> THEN [err |-> "IndexError", val |-> <<>>, log |-> <<>>]
    ELSE LET BC == read_name_tag(line)
         IN  IF a.umi /\ ~in_list(BC, umi_list)
             THEN [err |-> "none", val |-> <<>>,
                   log |-> << [level |-> "ERROR", msg |-> "Not a valid umi",
                               co |-> nr, head |-> split(line, TAB)[1]] >>]
             ELSE [err |-> "none", val |-> BC, log |-> <<>>]

Failed(e) == [err |-> e, line |-> <<>>, contig |-> <<>>, start_pos |-> 0,
              qual_score |-> <<>>, strand |-> <<"+", "">>, BC |-> <<>>,
              log |-> <<>>]

\* sam_info(line): the attributes in the order __init__ computes them; the
\* first exception raised ends the construction.
sam_info(line, a, umi_list, nr) ==
    LET f == split(line, TAB)
    IN  IF Len(f) < 3 THEN Failed("IndexError")
        ELSE LET sp == start_pos(line)
             IN  IF sp.err # "none" THEN Failed(sp.err)
                 ELSE LET st == bit_check(line)
                      IN  IF st.err # "none" THEN Failed(st.err)
                          ELSE LET bc == barcode_get(line, a, umi_list, nr)
                               IN  IF bc.err # "none" THEN Failed(bc.err)
                                   ELSE [err |-> "none", line |-> line,
                                         contig |-> f[3],
                                         start_pos |-> sp.val,
                                         qual_score |-> f[5],
                                         strand |-> st.val,
                                         BC |-> bc.val,
                                         log |-> bc.log]

----------------------------------------------------------------------------
(* dict, in insertion order: a sequence of [key, val] *)

dict_has(d, k) == \E i \in 1..Len(d) : d[i].key = k

dict_get(d, k) == d[CHOOSE i \in 1..Len(d) : d[i].key = k].val

dict_set(d, k, v) ==
    IF dict_has(d, k)
    THEN [i \in 1..Len(d) |-> IF d[i].key = k THEN [key |-> k, val |-> v] ELSE d[i]]
    ELSE Append(d, [key |-> k, val |-> v])

dict_values(d) == [i \in 1..Len(d) |-> d[i].val]

\* sorted(l) on (line, qual_score) tuples.
RECURSIVE sorted(_)
sorted(l) ==
    IF l = <<>> THEN <<>>
    ELSE LET m == CHOOSE i \in 1..Len(l) :
                      /\ \A j \in 1..Len(l) : ~tuple_lt(l[j], l[i])
                      /\ \A j \in 1..(i - 1) : l[j] # l[i]
         IN  <<l[m]>> \o sorted(SubSeq(l, 1, m - 1) \o SubSeq(l, m + 1, Len(l)))

----------------------------------------------------------------------------
(* The lines a SAM file is drawn from *)

RECURSIVE join(_, _)
join(fields, sep) ==
    IF Len(fields) = 1 THEN fields[1]
    ELSE fields[1] \o <<sep>> \o join(Tail(fields), sep)

\* A line as the file iterator yields it: tab-separated, newline at the end.
sam_line(fields) == join(fields, TAB) \o <<NL>>

\* QNAME, FLAG, RNAME, POS, MAPQ, CIGAR, RNEXT, PNEXT, TLEN, SEQ, QUAL
record_line(qname, flag, pos, mapq, cigar, pnext) ==
    sam_line(<<qname, flag, <<"1">>, pos, mapq, cigar, <<"=">>, pnext,
               <<"0">>, <<"A">>, <<"I">>>>)

HeaderLine == sam_line(<< <<"@", "H", "D">>, <<"V", "N", ":", "1">> >>)

\* key (AC, 12, +, 1), MAPQ 40
LineA == record_line(<<"a", ":", "A", "C">>, <<"0">>, <<"1", "2">>, <<"4", "0">>,
                     <<"1", "0", "M">>, <<"1", "7">>)
\* the same key through a soft clip of 2, MAPQ 9
LineB == record_line(<<"b", ":", "A", "C">>, <<"0">>, <<"1", "4">>, <<"9">>,
                     <<"2", "S", "8", "M">>, <<"1", "2">>)
\* the mate of LineA, reverse strand
LineC == record_line(<<"c", ":", "A", "C">>, <<"1", "6">>, <<"1", "7">>, <<"4", "0">>,
                     <<"1", "0", "M">>, <<"1", "2">>)
\* unmapped
LineD == record_line(<<"d", ":", "A", "C">>, <<"4">>, <<"1", "2">>, <<"4", "0">>,
                     <<"1", "0", "M">>, <<"1", "7">>)
\* secondary alignment
LineE == record_line(<<"e", ":", "A", "C">>, <<"2", "5", "6">>, <<"1", "2">>, <<"4", "0">>,
                     <<"1", "0", "M">>, <<"1", "7">>)
\* a tag that is not a known UMI
LineF == record_line(<<"f", ":", "Z", "Z">>, <<"0">>, <<"1", "2">>, <<"4", "0">>,
                     <<"1", "0", "M">>, <<"1", "7">>)
\* no tag after the last ':'
LineG == record_line(<<"g", ":">>, <<"0">>, <<"1", "2">>, <<"4", "0">>,
                     <<"1", "0", "M">>, <<"1", "7">>)
\* two fields only
LineH == sam_line(<< <<"h", ":", "A", "C">>, <<"0">> >>)
\* a two-character CIGAR without soft clip
LineI == record_line(<<"i", ":", "A", "C">>, <<"0">>, <<"1", "2">>, <<"4", "0">>,
                     <<"5", "M">>, <<"1", "7">>)
\* six fields: all that sam_info reads, no PNEXT
LineM == sam_line(<< <<"a", "a", ":", "G", "T">>, <<"0">>, <<"1">>, <<"3", "0">>,
                     <<"4", "0">>, <<"1", "0", "M">> >>)

Lines == {HeaderLine, LineA, LineB, LineC, LineD, LineE, LineF, LineG,
          LineH, LineI, LineM}

\* CIGAR strings and positions of the start_pos specification
CigarChars == {"1", "5", "0", "S", "M", "*"}

Cigars == UNION {[1..n -> CigarChars] : n \in 1..MaxCigarLen}

Positions == {<<"1", "0", "0">>, <<"7">>}

----------------------------------------------------------------------------
(* State *)

VARIABLES
    args,       \* the parsed options: pe, umi, qual
    pc,         \* "read", "write", "pair", "summary", "done", "crashed"
    exc,        \* the uncaught exception that ended the run, or "none"
    stream,     \* the lines of the input file iterated so far
    NR,         \* record counter
    UnMap,      \* unmapped counter
    badBc,      \* unidentified barcode counter
    tot,        \* total reads in dict
    peRemo,     \* paired-end lines written
    place,      \* the dict key -> (line, qual_score)
    out,        \* the lines appended to <sam>_deduped
    log,        \* the per-record entries of dup_remove.log
    firstvals,  \* pair_write: the sorted dict values
    pecount,    \* pair_write: the cursor
    summary,    \* the summary statistics logged at the end
    sp_line,    \* start_pos specification: the line
    sp_out      \* start_pos specification: the outcome of start_pos

vars == <<args, pc, exc, stream, NR, UnMap, badBc, tot, peRemo, place, out,
          log, firstvals, pecount, summary, sp_line, sp_out>>

run_vars == <<args, pc, exc, stream, NR, UnMap, badBc, tot, peRemo, place,
              out, log, firstvals, pecount, summary>>

umi_list == load_umi_list(args)

startswith(line, c) == Len(line) >= 1 /\ line[1] = c

\* The globals set in __main__ before inter_sam is called.
main_init ==
    /\ args \in [pe : BOOLEAN, umi : BOOLEAN, qual : BOOLEAN]
    /\ pc = "read"
    /\ exc = "none"
    /\ stream = <<>>
    /\ NR = 0
    /\ UnMap = 0
    /\ peRemo = 0
    /\ tot = 0
    /\ badBc = 0
    /\ place = <<>>
    /\ out = <<>>
    /\ log = <<>>
    /\ firstvals = <<>>
    /\ pecount = 0
    /\ summary = <<>>

Init ==
    /\ main_init
    /\ sp_line = <<>>
    /\ sp_out = [err |-> "unset", val |-> 0]

----------------------------------------------------------------------------
(* inter_sam *)

\* A key already in the dict, -q not set: the entry stays; here the new
\* read takes its place.
collision_last_wins(a, old, new) ==
    IF a.qual
    THEN IF str_lt(old[2], new[2]) THEN new ELSE old
    ELSE new

\* The value the dict holds for a key that was already in it: qual_score is
\* the MAPQ field as split returned it, a str, and < compares str.
collision(a, old, new) ==
    IF a.qual
    THEN IF str_lt(old[2], new[2]) THEN new ELSE old
    ELSE old

\* An uncaught exception ends the program.
crash(e) ==
    /\ pc' = "crashed"
    /\ exc' = e

\* for line in sam, a line that starts with '@': copied to the output.
inter_sam_header(line) ==
    /\ pc = "read"
    /\ Len(stream) < MaxLines
    /\ startswith(line, "@")
    /\ stream' = Append(stream, line)
    /\ out' = Append(out, line)
    /\ UNCHANGED <<args, pc, exc, NR, UnMap, badBc, tot, peRemo, place, log,
                   firstvals, pecount, summary, sp_line, sp_out>>

\* for line in sam, any other line: one pass through the loop body.  The
\* test line.BC is "" compares identities; CPython has one empty str
\* object, so it is true exactly of the empty tag.
inter_sam_record(line) ==
    /\ pc = "read"
    /\ Len(stream) < MaxLines
    /\ ~startswith(line, "@")
    /\ stream' = Append(stream, line)
    /\ NR' = NR + 1
    /\ \E r \in {sam_info(line, args, umi_list, NR + 1)} :
       LET key == <<r.BC, r.start_pos, r.strand[1], r.contig>>
           new == <<r.line, r.qual_score>>
       IN  IF r.err # "none"
           THEN /\ crash(r.err)
                /\ UNCHANGED <<UnMap, badBc, place, log>>
           ELSE /\ UNCHANGED <<pc, exc>>
                /\ log' = log \o r.log
                /\ IF r.strand[2] = "None"
                   THEN /\ UnMap' = UnMap + 1
                        /\ UNCHANGED <<badBc, place>>
                   ELSE IF r.BC = <<>>
                   THEN /\ badBc' = badBc + 1
                        /\ UNCHANGED <<UnMap, place>>
                   ELSE IF dict_has(place, key)
                   THEN /\ place' = dict_set(place, key,
                                       collision(args, dict_get(place, key), new))
                        /\ UNCHANGED <<UnMap, badBc>>
                   ELSE /\ place' = dict_set(place, key, new)
                        /\ UNCHANGED <<UnMap, badBc>>
    /\ UNCHANGED <<args, tot, peRemo, out, firstvals, pecount, summary,
                   sp_line, sp_out>>

\* The file is exhausted: inter_sam returns.
inter_sam_return ==
    /\ pc = "read"
    /\ pc' = "write"
    /\ UNCHANGED <<args, exc, stream, NR, UnMap, badBc, tot, peRemo, place,
                   out, log, firstvals, pecount, summary, sp_line, sp_out>>

----------------------------------------------------------------------------
(* dedup_writer *)

\* single_write(place): every value of the dict, in the order of the dict.
single_write ==
    /\ pc = "write"
    /\ ~args.pe
    /\ out' = out \o [i \in 1..Len(place) |-> dict_values(place)[i][1]]
    /\ pc' = "summary"
    /\ UNCHANGED <<args, exc, stream, NR, UnMap, badBc, tot, peRemo, place,
                   log, firstvals, pecount, summary, sp_line, sp_out>>

\* pair_write(place), up to the loop: the values sorted, the cursor at 0.
pair_write_begin ==
    /\ pc = "write"
    /\ args.pe
    /\ firstvals' = sorted(dict_values(place))
    /\ pecount' = 0
    /\ pc' = "pair"
    /\ UNCHANGED <<args, exc, stream, NR, UnMap, badBc, tot, peRemo, place,
                   out, log, summary, sp_line, sp_out>>

\* The test of a candidate pair with POS compared to POS.
pair_match_pos_pos(a, b) ==
    split(a[1], TAB)[4] = split(b[1], TAB)[4]

\* pos == pnext: POS of the first against PNEXT of the second.
pair_match(a, b) ==
    split(a[1], TAB)[4] = split(b[1], TAB)[8]

\* One pass through the while loop of pair_write.
pair_write_step ==
    /\ pc = "pair"
    /\ pecount < Len(place) - 1
    /\ LET first2vals == SubSeq(firstvals, pecount + 1, pecount + 2)
           a == first2vals[1]
           b == first2vals[2]
       IN  IF Len(split(a[1], TAB)) < 4 \/ Len(split(b[1], TAB)) < 8
           THEN /\ crash("IndexError")
                /\ UNCHANGED <<out, pecount, peRemo, log>>
           ELSE IF pair_match(a, b)
           THEN /\ out' = out \o <<a[1], b[1]>>
                /\ pecount' = pecount + 2
                /\ peRemo' = peRemo + 2
                /\ UNCHANGED <<pc, exc, log>>
           ELSE /\ pecount' = pecount + 1
                /\ log' = Append(log, [level |-> "INFO", msg |-> "non Paired end",
                                       co |-> pecount + 1, head |-> a])
                /\ UNCHANGED <<pc, exc, out, peRemo>>
    /\ UNCHANGED <<args, stream, NR, UnMap, badBc, tot, place, firstvals,
                   summary, sp_line, sp_out>>

\* The loop condition fails: pair_write returns.
pair_write_return ==
    /\ pc = "pair"
    /\ ~(pecount < Len(place) - 1)
    /\ pc' = "summary"
    /\ UNCHANGED <<args, exc, stream, NR, UnMap, badBc, tot, peRemo, place,
                   out, log, firstvals, pecount, summary, sp_line, sp_out>>

----------------------------------------------------------------------------
(* __main__, after the writer *)

\* tot+=len(place) and the summary statistics.
main_summary ==
    /\ pc = "summary"
    /\ tot' = tot + Len(place)
    /\ summary' = IF ~args.pe
                  THEN [NR |-> NR, unmap |-> UnMap, badbc |-> badBc,
                        DR |-> NR - UnMap - tot', D |-> tot']
                  ELSE [NR |-> NR, unmap |-> UnMap, badbc |-> badBc,
                        DR |-> NR - UnMap - tot', rm |-> tot' - peRemo,
                        D |-> peRemo]
    /\ pc' = "done"
    /\ UNCHANGED <<args, exc, stream, NR, UnMap, badBc, peRemo, place, out,
                   log, firstvals, pecount, sp_line, sp_out>>

Next ==
    \/ \E line \in Lines : inter_sam_header(line)
    \/ \E line \in Lines : inter_sam_record(line)
    \/ inter_sam_return
    \/ single_write
    \/ pair_write_begin
    \/ pair_write_step
    \/ pair_write_return
    \/ main_summary

Spec == Init /\ [][Next]_vars

----------------------------------------------------------------------------
(* start_pos on its own: every CIGAR string up to MaxCigarLen *)

StartPosInit ==
    /\ main_init
    /\ \E pos \in Positions, cigar \in Cigars :
           sp_line = record_line(<<"a", ":", "A", "C">>, <<"0">>, pos,
                                 <<"4", "0">>, cigar, <<"1", "7">>)
    /\ sp_out = [err |-> "unset", val |-> 0]

apply_start_pos ==
    /\ sp_out.err = "unset"
    /\ sp_out' = start_pos(sp_line)
    /\ UNCHANGED <<run_vars, sp_line>>

StartPosNext == apply_start_pos

StartPosSpec == StartPosInit /\ [][StartPosNext]_vars

----------------------------------------------------------------------------
(* What the properties speak of, read off the lines of the stream *)

IsRecord(l) == ~startswith(l, "@")

\* The fields sam_info reads are there and convert: no exception from them.
WellParsed(f) ==
    /\ Len(f) >= 6
    /\ int(f[2]).err = "none"
    /\ int(f[4]).err = "none"
    /\ soft_check(f[6]).err = "none"

\* Neither the unmapped bit (4) nor the secondary-alignment bit (256).
UsableFlag(f) ==
    /\ Len(f) >= 2
    /\ bit_and(int(f[2]).val, 4) = 0
    /\ bit_and(int(f[2]).val, 256) = 0

\* What follows the last ':' of the read name.
TagOf(f) == LET parts == split(f[1], ":") IN parts[Len(parts)]

ValidTagOf(f) == TagOf(f) # <<>> /\ (args.umi => in_list(TagOf(f), STL96))

\* (tag, adjustedPosition, strand, contig)
KeyOfFields(f) ==
    <<TagOf(f),
      int(f[4]).val - (IF soft_check(f[6]).val > 0 THEN soft_check(f[6]).val ELSE 0),
      IF bit_and(int(f[2]).val, 16) = 16 THEN "-" ELSE "+",
      f[3]>>

Usable(l) == UsableFlag(split(l, TAB))

KeyOf(l) == KeyOfFields(split(l, TAB))

\* What a line of the stream is to the dict: whether it is a usable,
\* validly tagged record, and then its key and its MAPQ as a number.
LineFacts(l) ==
    LET f == split(l, TAB)
    IN  IF IsRecord(l) /\ WellParsed(f) /\ UsableFlag(f) /\ ValidTagOf(f)
        THEN [eligible |-> TRUE, key |-> KeyOfFields(f), mapq |-> int(f[5]).val]
        ELSE [eligible |-> FALSE, key |-> <<>>, mapq |-> 0]

RECURSIVE FactsOf(_)
FactsOf(s) ==
    IF s = <<>> THEN <<>> ELSE <<LineFacts(s[1])>> \o FactsOf(Tail(s))

\* The positions that hold a usable, validly tagged record, F the facts of
\* the stream.
Eligible(F) == {i \in 1..Len(F) : F[i].eligible}

WithKey(F, k) == {i \in 1..Len(F) : F[i].eligible /\ F[i].key = k}

Least(S) == CHOOSE i \in S : \A j \in S : i <= j

\* A line that is not an alignment record: too few fields, or a flag or a
\* position that is not an integer.
Malformed(l) ==
    \/ Len(split(l, TAB)) < 6
    \/ int(split(l, TAB)[2]).err # "none"
    \/ int(split(l, TAB)[4]).err # "none"

\* The stream has been consumed to its end.
Consumed == pc \in {"write", "pair", "summary", "done"}

\* This step is one pass of the loop body of inter_sam over a record line.
ReadsRecord == pc = "read" /\ Len(stream') = Len(stream) + 1
                   /\ IsRecord(stream'[Len(stream')])

HeaderCount == Cardinality({i \in 1..Len(stream) : ~IsRecord(stream[i])})

\* The record lines of the output: what follows the copied header lines.
Emitted == SubSeq(out, HeaderCount + 1, Len(out))

\* The reads pair_write reported as having no mate.
Unmatched == {i \in 1..Len(log) : log[i].msg = "non Paired end"}

----------------------------------------------------------------------------
(* Properties *)

\* C1: without -q the dict holds exactly one entry for each key that occurs
\* among the usable, validly tagged records the pass has got through, and
\* the line of that entry is the first record of the stream with that key.
C1_FirstSeenWins ==
    ~args.qual =>
        LET F == FactsOf(stream)
        IN  /\ \A i, j \in 1..Len(place) : place[i].key = place[j].key => i = j
            /\ \A i \in Eligible(F) :
                   \E e \in 1..Len(place) :
                       /\ place[e].key = F[i].key
                       /\ place[e].val[1] = stream[Least(WithKey(F, F[i].key))]
            /\ \A e \in 1..Len(place) : WithKey(F, place[e].key) # {}

\* C1 witness: a whole stream consumed without -q in which two different
\* records collided on one key.
C1_Witness ==
    /\ ~args.qual
    /\ Consumed
    /\ LET F == FactsOf(stream)
       IN  \E i, j \in Eligible(F) :
               /\ i < j
               /\ F[i].key = F[j].key
               /\ stream[i] # stream[j]

\* C2: with -q the retained record of every key has a MAPQ, as a number,
\* at least that of every usable, validly tagged record with the key, and
\* is the earliest of the records of that MAPQ.
C2_HighestQualityRetained ==
    args.qual =>
        LET F == FactsOf(stream)
        IN  \A e \in 1..Len(place) :
                LET S == WithKey(F, place[e].key)
                    best == CHOOSE i \in S : \A j \in S :
                                \/ F[j].mapq < F[i].mapq
                                \/ F[j].mapq = F[i].mapq /\ i <= j
                IN  /\ \A j \in S : int(place[e].val[2]).val >= F[j].mapq
                    /\ place[e].val[1] = stream[best]

\* C3: no line held by the dict has the unmapped bit or the
\* secondary-alignment bit set, whatever the options.
C3_FilteringExclusivity ==
    \A e \in 1..Len(place) : Usable(place[e].val[1])

\* C3 witness: a record with one of the two bits set was read while the
\* dict held entries.
C3_Witness ==
    /\ Len(place) >= 1
    /\ Len(stream) >= 1
    /\ IsRecord(stream[Len(stream)])
    /\ Len(split(stream[Len(stream)], TAB)) >= 6
    /\ int(split(stream[Len(stream)], TAB)[2]).err = "none"
    /\ ~Usable(stream[Len(stream)])

\* C4: reading a record with the unmapped or the secondary bit set adds
\* exactly 1 to UnMap, leaves the dict as it is, and the pass goes on.
C4_UnusableCounted ==
    [][(ReadsRecord /\ ~Usable(stream'[Len(stream')]))
       => (UnMap' = UnMap + 1 /\ place' = place /\ pc' = "read")]_vars

\* C5: the summary of a single-end run: processed, unmapped, unidentified
\* and retained count what they name, and duplicates removed counts the
\* usable, validly tagged records that lost a collision, nothing else.
C5_SummaryCounts ==
    (pc = "done" /\ ~args.pe) =>
        LET records == {i \in 1..Len(stream) : IsRecord(stream[i])}
            unusable == {i \in records : ~Usable(stream[i])}
            untagged == {i \in records \ unusable : ~ValidTagOf(split(stream[i], TAB))}
        IN  /\ summary.NR = Cardinality(records)
            /\ summary.unmap = Cardinality(unusable)
            /\ summary.badbc = Cardinality(untagged)
            /\ summary.D = Len(place)
            /\ summary.DR = Cardinality(Eligible(FactsOf(stream))) - Len(place)
            /\ summary.NR = summary.unmap + summary.badbc + summary.DR + summary.D

\* A CIGAR string: "*", or lengths each followed by an operation.
IsCigar(c) ==
    \/ c = <<"*">>
    \/ /\ IsDigit(c[1])
       /\ ~IsDigit(c[Len(c)])
       /\ \A i \in 1..Len(c) : c[i] # "*"
       /\ \A i \in 2..Len(c) : ~IsDigit(c[i]) => IsDigit(c[i - 1])

\* The number of digits the string starts with.
LeadingDigits(c) ==
    Cardinality({n \in 1..Len(c) : \A i \in 1..n : IsDigit(c[i])})

\* C6: for every CIGAR string, start_pos is the raw position less k when
\* the CIGAR begins with a soft clip of one or two digits k, and the raw
\* position unchanged when the CIGAR has no leading soft clip, whatever
\* its length.
C6_ClipAdjustment ==
    (sp_out.err # "unset" /\ IsCigar(split(sp_line, TAB)[6])) =>
        LET cigar == split(sp_line, TAB)[6]
            raw == int(split(sp_line, TAB)[4]).val
            n == LeadingDigits(cigar)
        IN  IF cigar # <<"*">> /\ cigar[n + 1] = "S"
            THEN n <= 2 => sp_out = Ok(raw - digits_value(SubSeq(cigar, 1, n)))
            ELSE sp_out = Ok(raw)

\* C7: of the records with their fields in place: with -u a usable record
\* whose tag is a known UMI is in the dict under that tag after its pass,
\* and one whose tag is not known leaves the dict alone and adds exactly 1
\* to badBc; without -u every usable record with a non-empty tag is in the
\* dict under its tag as it stands.
C7_TagValidation ==
    [][(/\ ReadsRecord
        /\ ~Malformed(stream'[Len(stream')])
        /\ Usable(stream'[Len(stream')]))
       => LET l == stream'[Len(stream')]
              tag == TagOf(split(l, TAB))
          IN  IF args.umi
              THEN IF in_list(tag, STL96)
                   THEN dict_has(place', KeyOf(l)) /\ badBc' = badBc
                   ELSE place' = place /\ badBc' = badBc + 1
              ELSE tag # <<>> =>
                       dict_has(place', KeyOf(l)) /\ badBc' = badBc]_vars

C9_MalformedSkipped ==
    [][(ReadsRecord /\ Malformed(stream'[Len(stream')]))
       => (pc' = "read" /\ place' = place)]_vars

\* C10: when pair_write has returned, every retained entry was either
\* written as a member of a pair or logged as unmatched, and never both,
\* the last entry included.
C10_EveryEntryClassified ==
    (args.pe /\ pc = "done") =>
        \A i \in 1..Len(firstvals) :
            LET written == {k \in 1..Len(Emitted) : Emitted[k] = firstvals[i][1]}
                logged == {k \in Unmatched : log[k].head = firstvals[i]}
            IN  Cardinality(written) + Cardinality(logged) = 1

====
